---- MODULE Spec2Model ----
(***************************************************************************)
(* The ireul stream-splicing engine: Core (libireul_core/src/core.rs), the  *)
(* older OutputManager engine (src/core/main.rs) and the start-up state     *)
(* built by main (src/main.rs).                                             *)
(***************************************************************************)
EXTENDS Integers, Sequences, FiniteSets, TLC

\* A u32 serial is the pair <<high half, low half>> of its 16-bit halves.
W16 == 65536

\* OggClock::new(48000)
SampleRate == 48000

\* Bounds of the model.
Capacity == 2
MaxTicks == 5
MaxHandle == 3

---------------------------------------------------------------------------
\* Option<T> as a sequence of length at most one.
None == <<>>
Some(x) == <<x>>

U32v(n) == <<0, n>>

\* u32::wrapping_add
wrapping_add(x, n) ==
    LET lo == x[2] + n
    IN <<(x[1] + (lo \div W16)) % W16, lo % W16>>

Ok(h) == [ok |-> TRUE, err |-> "", handle |-> h]
Err(e) == [ok |-> FALSE, err |-> e, handle |-> 0]

---------------------------------------------------------------------------
\* Vorbis packets, by what VorbisPacket::new and its accessors tell apart.
IdPkt(rate) == [kind |-> "id", rate |-> rate, vendor |-> "", entries |-> <<>>]
CommentPkt(v, e) == [kind |-> "comment", rate |-> 0, vendor |-> v, entries |-> e]
AudioPkt == [kind |-> "audio", rate |-> 0, vendor |-> "", entries |-> <<>>]

\* An Ogg page: the header fields the engine reads and writes, its packets,
\* and (src, idx), which stand for the audio bytes of the body: the file the
\* page came from and its index there.
Pg(src, idx, position, sequence, bos, eos, continued, packets) ==
    [src |-> src, idx |-> idx, position |-> position, serial |-> U32v(7777),
     sequence |-> sequence, bos |-> bos, eos |-> eos, continued |-> continued,
     packets |-> packets]

NoPage == Pg("none", 0, 0, 0, FALSE, FALSE, FALSE, <<>>)

Headers(rate) == <<IdPkt(rate), CommentPkt("Xiph", <<"TITLE=orig">>)>>

\* The built-in or configured fallback: three pages, one eos at the end.
FA ==
    << Pg("FA", 1, 0, 0, TRUE, FALSE, FALSE, Headers(48000)),
       Pg("FA", 2, 960, 1, FALSE, FALSE, FALSE, <<AudioPkt>>),
       Pg("FA", 3, 1920, 2, FALSE, TRUE, FALSE, <<AudioPkt>>) >>

\* A configured fallback file holding two eos pages (pages 3 and 5).
F5 ==
    << Pg("F5", 1, 0, 0, TRUE, FALSE, FALSE, Headers(48000)),
       Pg("F5", 2, 960, 1, FALSE, FALSE, FALSE, <<AudioPkt>>),
       Pg("F5", 3, 1920, 2, FALSE, TRUE, FALSE, <<AudioPkt>>),
       Pg("F5", 4, 2880, 3, FALSE, FALSE, FALSE, <<AudioPkt>>),
       Pg("F5", 5, 3840, 4, FALSE, TRUE, FALSE, <<AudioPkt>>) >>

\* A configured fallback file of zero bytes.
FEmpty == <<>>

\* A well-formed track one of whose packets spans pages 1 and 2.
TC ==
    << Pg("TC", 1, 0, 0, TRUE, FALSE, FALSE, Headers(48000) \o <<AudioPkt>>),
       Pg("TC", 2, 960, 1, FALSE, FALSE, TRUE, <<AudioPkt>>),
       Pg("TC", 3, 1920, 2, FALSE, FALSE, FALSE, <<AudioPkt>>),
       Pg("TC", 4, 2880, 3, FALSE, TRUE, FALSE, <<AudioPkt>>) >>

\* Headers and granules in order, but no bos on the first page and no eos on
\* the last.
TNoEos ==
    << Pg("TNoEos", 1, 0, 0, FALSE, FALSE, FALSE, Headers(48000)),
       Pg("TNoEos", 2, 960, 1, FALSE, FALSE, FALSE, <<AudioPkt>>) >>

\* A well-formed two-page track, used as a replacement fallback.
TB ==
    << Pg("TB", 1, 0, 0, TRUE, FALSE, FALSE, Headers(48000)),
       Pg("TB", 2, 960, 1, FALSE, TRUE, FALSE, <<AudioPkt>>) >>

\* A track encoded at 44100 Hz.
T44 ==
    << Pg("T44", 1, 0, 0, TRUE, FALSE, FALSE, Headers(44100)),
       Pg("T44", 2, 960, 1, FALSE, TRUE, FALSE, <<AudioPkt>>) >>

\* The requests the clients send.
Request(track, metadata) == [track |-> track, metadata |-> metadata]
Meta == Some(<<"ARTIST=X", "TITLE=Y">>)
InitFallbacks == {FA, F5, FEmpty}
EnqueueRequests == {Request(TC, Meta), Request(TNoEos, None), Request(T44, None),
                    Request(FEmpty, None)}
ReplaceFallbackRequests == {Request(TB, None), Request(T44, Meta)}

---------------------------------------------------------------------------
\* PlayQueue (queue.rs): a bounded FIFO of admitted tracks with handles.
PlayQueue_new == [items |-> <<>>, next_handle |-> 1]

Track_from_ogg_track(handle, track) == [handle |-> handle, track |-> track]

\* add_track that never finds the queue full.
add_track_unbounded(q, track) ==
    [queue |-> [items |-> Append(q.items, Track_from_ogg_track(q.next_handle, track)),
                next_handle |-> q.next_handle + 1],
     res |-> Ok(q.next_handle)]

add_track(q, track) ==
    IF Len(q.items) >= Capacity
    THEN [queue |-> q, res |-> Err("Full")]
    ELSE [queue |-> [items |-> Append(q.items, Track_from_ogg_track(q.next_handle, track)),
                     next_handle |-> q.next_handle + 1],
          res |-> Ok(q.next_handle)]

pop_track(q) ==
    IF q.items = <<>>
    THEN [queue |-> q, track |-> None]
    ELSE [queue |-> [q EXCEPT !.items = Tail(@)], track |-> Some(Head(q.items))]

get_track_info(t) == [handle |-> t.handle, sample_position |-> 0]

track_infos(q) == [i \in 1..Len(q.items) |-> get_track_info(q.items[i])]

---------------------------------------------------------------------------
\* VorbisPacket::find_comments / find_identification: the first packet of
\* that kind over all pages of the track, in order.
AllPackets(track) ==
    LET RECURSIVE cat(_)
        cat(i) == IF i > Len(track) THEN <<>> ELSE track[i].packets \o cat(i + 1)
    IN cat(1)

find_packet(track, kind) ==
    LET ps == AllPackets(track)
        hits == {i \in 1..Len(ps) : ps[i].kind = kind}
    IN IF hits = {} THEN None
       ELSE Some(ps[CHOOSE i \in hits : \A j \in hits : i <= j])

\* Ok(()) is TRUE, Err(()) is FALSE.
validate_positions(track) ==
    LET RECURSIVE loop(_, _, _)
        loop(i, current, is_first) ==
            IF i > Len(track) THEN TRUE
            ELSE LET position == track[i].position
                 IN IF is_first /\ position # 0 THEN FALSE
                    ELSE IF position < current THEN FALSE
                    ELSE loop(i + 1, position, FALSE)
    IN loop(1, 0, TRUE)

validate_comment_section(track) == find_packet(track, "comment") # None

check_sample_rate(req, track) ==
    LET packet == find_packet(track, "id")
    IN IF packet = None THEN FALSE
       ELSE packet[1].rate = req

update_serial(serial, track) ==
    [i \in 1..Len(track) |-> [track[i] EXCEPT !.serial = serial]]

\* rewrite_comments with a closure that replaces the entries and leaves the
\* vendor as it was.
rewrite_comments_keep_vendor(track, metadata) ==
    LET func(comments) ==
            CommentPkt(comments.vendor,
                       IF metadata # None THEN metadata[1] ELSE comments.entries)
        have_comment(page) == \E i \in 1..Len(page.packets) : page.packets[i].kind = "comment"
        rebuild(page) ==
            [page EXCEPT !.packets =
                [i \in 1..Len(page.packets) |->
                    IF page.packets[i].kind = "comment"
                    THEN func(page.packets[i]) ELSE page.packets[i]]]
    IN [i \in 1..Len(track) |->
            IF have_comment(track[i]) THEN rebuild(track[i]) ELSE track[i]]

\* rewrite_comments with the closure both callers pass: the vendor is set
\* and, when the request carries metadata, the entries are replaced.
rewrite_comments(track, metadata) ==
    LET func(comments) ==
            CommentPkt("Ireul Core",
                       IF metadata # None THEN metadata[1] ELSE comments.entries)
        have_comment(page) == \E i \in 1..Len(page.packets) : page.packets[i].kind = "comment"
        rebuild(page) ==
            [page EXCEPT !.packets =
                [i \in 1..Len(page.packets) |->
                    IF page.packets[i].kind = "comment"
                    THEN func(page.packets[i]) ELSE page.packets[i]]]
    IN [i \in 1..Len(track) |->
            IF have_comment(track[i]) THEN rebuild(track[i]) ELSE track[i]]

---------------------------------------------------------------------------
\* struct Core, without the connector (the sink keeps no engine state).
VARIABLES core, panicked

\* History of the run, kept for the properties: the number of pages emitted,
\* the last RPC or tick and its result, the page the last tick emitted, the
\* serials stamped by the last two refills, the source file of the fallback
\* in force, whether any enqueue, fast-forward or replace has been requested,
\* and the cur_serial the engine was constructed with.
VARIABLES ticks, reply, out, stamps, installed, dirty, S0

\* History of the last fast-forward that ran on a non-empty buffer, and of
\* the last enqueue that was accepted while the fallback was playing.
VARIABLES ff, c6

\* fill_buffer with the serial advanced by 0, as OutputManager::fill_buffer does.
fill_buffer_add0(c) ==
    LET popped == pop_track(c.play_queue)
        c1 == IF popped.track # None
              THEN [c EXCEPT !.play_queue = popped.queue,
                             !.playing_offline = FALSE,
                             !.playing = Some(get_track_info(popped.track[1]))]
              ELSE [c EXCEPT !.playing_offline = TRUE,
                             !.playing = None]
        track == IF popped.track # None THEN popped.track[1].track
                 ELSE c.offline_track.track
    IN [c1 EXCEPT !.cur_serial = wrapping_add(c.cur_serial, 0),
                  !.buffer = c.buffer \o update_serial(c.cur_serial, track)]

\* fill_buffer that stamps the pages after it has advanced the serial.
fill_buffer_stamp_after(c) ==
    LET popped == pop_track(c.play_queue)
        c1 == IF popped.track # None
              THEN [c EXCEPT !.play_queue = popped.queue,
                             !.playing_offline = FALSE,
                             !.playing = Some(get_track_info(popped.track[1]))]
              ELSE [c EXCEPT !.playing_offline = TRUE,
                             !.playing = None]
        track == IF popped.track # None THEN popped.track[1].track
                 ELSE c.offline_track.track
    IN [c1 EXCEPT !.cur_serial = wrapping_add(c.cur_serial, 1),
                  !.buffer = c.buffer \o update_serial(wrapping_add(c.cur_serial, 1), track)]

fill_buffer(c) ==
    LET popped == pop_track(c.play_queue)
        c1 == IF popped.track # None
              THEN [c EXCEPT !.play_queue = popped.queue,
                             !.playing_offline = FALSE,
                             !.playing = Some(get_track_info(popped.track[1]))]
              ELSE [c EXCEPT !.playing_offline = TRUE,
                             !.playing = None]
        track == IF popped.track # None THEN popped.track[1].track
                 ELSE c.offline_track.track
    IN [c1 EXCEPT !.cur_serial = wrapping_add(c.cur_serial, 1),
                  !.buffer = c.buffer \o update_serial(c.cur_serial, track)]

\* pop_front().unwrap(): panic is TRUE when the buffer is empty after the
\* refill.
get_next_page(c) ==
    LET c1 == IF c.buffer = <<>> THEN fill_buffer(c) ELSE c
    IN IF c1.buffer = <<>>
       THEN [panic |-> TRUE, page |-> NoPage, core |-> c1]
       ELSE [panic |-> FALSE, page |-> Head(c1.buffer),
             core |-> [c1 EXCEPT !.buffer = Tail(@)]]

\* The number of pages the first loop of fast_forward_track_boundary keeps.
continued_prefix(buf) ==
    LET RECURSIVE loop(_)
        loop(i) == IF i <= Len(buf) /\ buf[i].continued THEN loop(i + 1) ELSE i - 1
    IN loop(1)

\* fast_forward_track_boundary that leaves nothing in the buffer when it
\* finds no eos page.
fast_forward_track_boundary_clear(c) ==
    LET old_buffer == c.buffer
        k == continued_prefix(old_buffer)
        kept == SubSeq(old_buffer, 1, k)
        rest == SubSeq(old_buffer, k + 2, Len(old_buffer))
        eoss == {i \in 1..Len(rest) : rest[i].eos}
        j == CHOOSE i \in eoss : \A i2 \in eoss : i <= i2
        page == [rest[j] EXCEPT !.position = c.prev_ogg_granule_pos,
                                !.serial = c.prev_ogg_serial,
                                !.sequence = c.prev_ogg_sequence + 1]
    IN [c EXCEPT !.buffer =
            IF eoss = {} THEN <<>>
            ELSE kept \o <<page>> \o SubSeq(rest, j + 1, Len(rest))]

fast_forward_track_boundary(c) ==
    LET old_buffer == c.buffer
        k == continued_prefix(old_buffer)
        kept == SubSeq(old_buffer, 1, k)
        \* the page that ended the first loop was taken from the iterator
        \* and is dropped at the break
        rest == SubSeq(old_buffer, k + 2, Len(old_buffer))
        eoss == {i \in 1..Len(rest) : rest[i].eos}
        j == CHOOSE i \in eoss : \A i2 \in eoss : i <= i2
        page == [rest[j] EXCEPT !.position = c.prev_ogg_granule_pos,
                                !.serial = c.prev_ogg_serial,
                                !.sequence = c.prev_ogg_sequence + 1]
    IN [c EXCEPT !.buffer =
            IF eoss = {} THEN kept
            ELSE kept \o <<page>> \o SubSeq(rest, j + 1, Len(rest))]

\* enqueue_track with the sample rate checked before the comment section.
enqueue_track_rate_first(c, req) ==
    IF req.track = <<>> THEN [core |-> c, res |-> Err("InvalidTrack")]
    ELSE IF ~validate_positions(req.track) THEN [core |-> c, res |-> Err("InvalidTrack")]
    ELSE IF ~check_sample_rate(SampleRate, req.track) THEN [core |-> c, res |-> Err("BadSampleRate")]
    ELSE IF ~validate_comment_section(req.track) THEN [core |-> c, res |-> Err("InvalidTrack")]
    ELSE LET track == rewrite_comments(req.track, req.metadata)
             added == add_track(c.play_queue, track)
             c1 == [c EXCEPT !.play_queue = added.queue]
         IN [core |-> IF c1.playing_offline THEN fast_forward_track_boundary(c1) ELSE c1,
             res |-> added.res]

\* enqueue_track that answers every admission with the handle of the fallback.
enqueue_track_fallback_handle(c, req) ==
    IF req.track = <<>> THEN [core |-> c, res |-> Err("InvalidTrack")]
    ELSE IF ~validate_positions(req.track) THEN [core |-> c, res |-> Err("InvalidTrack")]
    ELSE IF ~validate_comment_section(req.track) THEN [core |-> c, res |-> Err("InvalidTrack")]
    ELSE IF ~check_sample_rate(SampleRate, req.track) THEN [core |-> c, res |-> Err("BadSampleRate")]
    ELSE LET track == rewrite_comments(req.track, req.metadata)
             added == add_track(c.play_queue, track)
             c1 == [c EXCEPT !.play_queue = added.queue]
         IN [core |-> IF c1.playing_offline THEN fast_forward_track_boundary(c1) ELSE c1,
             res |-> IF added.res.ok THEN Ok(0) ELSE added.res]

\* enqueue_track that fast-forwards whatever is playing.
enqueue_track_always_ff(c, req) ==
    IF req.track = <<>> THEN [core |-> c, res |-> Err("InvalidTrack")]
    ELSE IF ~validate_positions(req.track) THEN [core |-> c, res |-> Err("InvalidTrack")]
    ELSE IF ~validate_comment_section(req.track) THEN [core |-> c, res |-> Err("InvalidTrack")]
    ELSE IF ~check_sample_rate(SampleRate, req.track) THEN [core |-> c, res |-> Err("BadSampleRate")]
    ELSE LET track == rewrite_comments(req.track, req.metadata)
             added == add_track(c.play_queue, track)
             c1 == [c EXCEPT !.play_queue = added.queue]
         IN [core |-> fast_forward_track_boundary(c1), res |-> added.res]

enqueue_track(c, req) ==
    IF req.track = <<>> THEN [core |-> c, res |-> Err("InvalidTrack")]
    ELSE IF ~validate_positions(req.track) THEN [core |-> c, res |-> Err("InvalidTrack")]
    ELSE IF ~validate_comment_section(req.track) THEN [core |-> c, res |-> Err("InvalidTrack")]
    ELSE IF ~check_sample_rate(SampleRate, req.track) THEN [core |-> c, res |-> Err("BadSampleRate")]
    ELSE LET track == rewrite_comments(req.track, req.metadata)
             added == add_track(c.play_queue, track)
             c1 == [c EXCEPT !.play_queue = added.queue]
         IN [core |-> IF c1.playing_offline THEN fast_forward_track_boundary(c1) ELSE c1,
             res |-> added.res]

\* fast_forward that also skips the track at the head of the queue.
fast_forward_pop(c) ==
    [core |-> [fast_forward_track_boundary(c) EXCEPT
                  !.play_queue = pop_track(c.play_queue).queue],
     res |-> Ok(0)]

fast_forward(c) == [core |-> fast_forward_track_boundary(c), res |-> Ok(0)]

\* queue_status that reports the queue without the track being played.
queue_status_queue_only(c) ==
    [upcoming |-> track_infos(c.play_queue)]

queue_status(c) ==
    [upcoming |-> c.playing \o track_infos(c.play_queue)]

\* replace_fallback that also drops the buffered pages of the old fallback.
replace_fallback_flush(c, req) ==
    IF req.track = <<>> THEN [core |-> c, res |-> Err("InvalidTrack")]
    ELSE IF ~validate_positions(req.track) THEN [core |-> c, res |-> Err("InvalidTrack")]
    ELSE IF ~validate_comment_section(req.track) THEN [core |-> c, res |-> Err("InvalidTrack")]
    ELSE IF ~check_sample_rate(SampleRate, req.track) THEN [core |-> c, res |-> Err("BadSampleRate")]
    ELSE LET track == rewrite_comments(req.track, req.metadata)
         IN [core |-> [c EXCEPT !.offline_track = Track_from_ogg_track(0, track),
                                !.buffer = <<>>],
             res |-> Ok(0)]

replace_fallback(c, req) ==
    IF req.track = <<>> THEN [core |-> c, res |-> Err("InvalidTrack")]
    ELSE IF ~validate_positions(req.track) THEN [core |-> c, res |-> Err("InvalidTrack")]
    ELSE IF ~validate_comment_section(req.track) THEN [core |-> c, res |-> Err("InvalidTrack")]
    ELSE IF ~check_sample_rate(SampleRate, req.track) THEN [core |-> c, res |-> Err("BadSampleRate")]
    ELSE LET track == rewrite_comments(req.track, req.metadata)
         IN [core |-> [c EXCEPT !.offline_track = Track_from_ogg_track(0, track)],
             res |-> Ok(0)]

\* tick that returns at a failed write, before the sample position of the
\* track being played is updated.
tick_return_on_error(c, sent) ==
    LET r == get_next_page(c)
        page == r.page
        c1 == [r.core EXCEPT
                  !.prev_ogg_granule_pos = page.position,
                  !.prev_ogg_serial = page.serial,
                  !.prev_ogg_sequence = page.sequence]
    IN IF r.panic THEN r
       ELSE IF ~sent.ok THEN [panic |-> FALSE, page |-> page, core |-> c1]
       ELSE [panic |-> FALSE, page |-> page,
             core |-> [c1 EXCEPT
                 !.playing = IF @ = None THEN None
                             ELSE Some([@[1] EXCEPT !.sample_position = page.position])]]

\* sent is what connector.send_ogg_page(&page) returned. The deadline tick
\* returns is now + clock.wait_duration(&page), a function of page.
tick(c, sent) ==
    LET r == get_next_page(c)
        page == r.page
        c1 == [r.core EXCEPT
                  !.prev_ogg_granule_pos = page.position,
                  !.prev_ogg_serial = page.serial,
                  !.prev_ogg_sequence = page.sequence]
        \* if let Err(_err) = ... { }
        c2 == IF ~sent.ok THEN c1 ELSE c1
    IN IF r.panic THEN r
       ELSE [panic |-> FALSE, page |-> page,
             core |-> [c2 EXCEPT
                 !.playing = IF @ = None THEN None
                             ELSE Some([@[1] EXCEPT !.sample_position = page.position])]]

\* The results of IceCastWriter::send_ogg_page.
SendResults == {Ok(0), Err("io")}

\* The Core that main constructs around the fallback it loaded.
Core_new(serial, offline_track) ==
    [cur_serial |-> serial,
     playing_offline |-> FALSE,
     buffer |-> <<>>,
     prev_ogg_granule_pos |-> 0,
     prev_ogg_serial |-> U32v(0),
     prev_ogg_sequence |-> 0,
     play_queue |-> PlayQueue_new,
     offline_track |-> Track_from_ogg_track(0, offline_track),
     playing |-> None]

SourceOf(track) == IF track = <<>> THEN "empty" ELSE track[1].src

---------------------------------------------------------------------------
\* struct OutputManager (src/core/main.rs), and the request and the result
\* of the validation runs.
VARIABLES om, vreq, vres

\* The threads of eloop::control: the owner of the Mutex<Core>, the position
\* of the tick thread, the client_worker of each connection, and what the
\* last send_ogg_page returned. lin is the engine of the sequential run that
\* takes each operation whole at the moment its thread acquires the mutex.
VARIABLES mutex, tick_thread, workers, lin, sink

server_vars == <<mutex, tick_thread, workers, lin, sink>>

\* The handles the accepted enqueues returned, in the order of the enqueues,
\* and the handles of the tracks a refill took from the queue, in the order of
\* the refills.
VARIABLES handles, started

\* The engine behind the message-bus transport with the last reply of the
\* bus, and the clock of the tick thread.
VARIABLES bus, pacer

vars == <<core, panicked, ticks, reply, out, stamps, installed, dirty, S0, ff, c6,
          om, vreq, vres, mutex, tick_thread, workers, lin, sink, handles, started,
          bus, pacer>>

\* The shape the data model asks of a track.
WellShaped(track) ==
    /\ track # <<>>
    /\ track[1].position = 0
    /\ track[1].bos
    /\ track[Len(track)].eos
    /\ \A i \in 2..Len(track) : track[i].position >= track[i - 1].position

Reply(op, res) == [op |-> op, res |-> res, upcoming |-> <<>>]

---------------------------------------------------------------------------
\* The connections client_acceptor has accepted, each with its own worker
\* thread: two of them, which with the tick thread makes three threads
\* around the mutex.
Clients == {1, 2}

\* The requests a connection is served before it is left alone.
MaxRequests == 1

\* The ticks of a run of the server, and the frames a connection sends when
\* it is followed read by read.
MaxServerTicks == 2
MaxFrames == 2

\* const BUFFER_SIZE_LIMIT: usize = 20 * 1 << 20; `*` binds tighter than `<<`.
BUFFER_SIZE_LIMIT == (20 * 1) * 2^20

\* The payload of a FastForward or a QueueStatus request carries no track.
NoRequest == Request(<<>>, None)

\* A client_worker at the top of its loop. pc is the next thing it does, err
\* why it returned, read what the reads of this turn of the loop gave (-1
\* for a read that failed), calls and replies the engine operations it has
\* invoked and the replies it has written.
Worker_new ==
    [pc |-> "version", err |-> "", read |-> <<>>, req_type |-> "", frame_length |-> 0,
     req |-> NoRequest, resp |-> Reply("none", Ok(0)), calls |-> 0, replies |-> 0]

Lin_new(c) == [core |-> c, page |-> NoPage, resp |-> Reply("none", Ok(0))]

\* The bus serves the engine main constructed; nothing has been called.
Bus_new == [core |-> Core_new(U32v(0), FA), reply |-> Reply("none", Ok(0))]

\* The tick thread before its first tick, at time 0.
Pacer_new == [pc |-> "tick", now |-> 0, deadline |-> 0, wait |-> 0, sleep_ms |-> U32v(0)]

\* start: the mutex is free, no connection has sent anything. The server is
\* run around the engine with the built-in fallback.
ServerInit ==
    /\ mutex = None
    /\ tick_thread = "sleep"
    /\ workers = [i \in Clients |-> Worker_new]
    /\ lin = Lin_new(Core_new(U32v(0), FA))
    /\ sink = Ok(0)

FfIdle == [active |-> FALSE, eos |-> 0, ok |-> TRUE, closed |-> FALSE]
C6Idle == [phase |-> "idle", left |-> 0, handle |-> 0]

\* The serials of the last two refills.
Stamp(hist, serial) == IF Len(hist) < 2 THEN Append(hist, serial) ELSE <<hist[2], serial>>

\* The number of pages at the head of buf that are continued pages.
LeadingContinued(buf) ==
    Cardinality({k \in 1..Len(buf) : \A i \in 1..k : buf[i].continued})

\* ff after a fast-forward has run on the buffer buf.
FfAfterFastForward(buf) ==
    IF buf = <<>> THEN ff
    ELSE IF ff.active THEN ff
    ELSE [active |-> TRUE, eos |-> 0, ok |-> TRUE, closed |-> FALSE]

\* ff after a tick that emitted page from the engine state c.
FfAfterTick(c, page) ==
    IF c.buffer = <<>>
    THEN IF ff.active THEN [ff EXCEPT !.active = FALSE, !.closed = TRUE] ELSE ff
    ELSE IF ff.active /\ page.eos
    THEN [ff EXCEPT !.eos = IF @ < 2 THEN @ + 1 ELSE @,
                    !.ok = @ /\ page.position = c.prev_ogg_granule_pos
                             /\ page.sequence = c.prev_ogg_sequence + 1]
    ELSE ff

\* c6 after a tick that took the engine from c to c2 and emitted page.
C6AfterTick(c, c2, page) ==
    IF c6.phase = "cont" /\ c6.left > 0
    THEN IF page.continued /\ page.serial = c.prev_ogg_serial
         THEN [c6 EXCEPT !.left = @ - 1]
         ELSE [c6 EXCEPT !.phase = "bad"]
    ELSE IF c6.phase = "cont"
    THEN IF /\ page.eos
            /\ page.serial = c.prev_ogg_serial
            /\ page.position = c.prev_ogg_granule_pos
            /\ page.sequence = c.prev_ogg_sequence + 1
         THEN [c6 EXCEPT !.phase = "T"]
         ELSE [c6 EXCEPT !.phase = "bad"]
    ELSE IF c6.phase = "T"
    THEN IF /\ page.position = 0
            /\ page.serial = wrapping_add(c.prev_ogg_serial, 1)
            /\ c2.playing # None
            /\ c2.playing[1].handle = c6.handle
         THEN [c6 EXCEPT !.phase = "done"]
         ELSE [c6 EXCEPT !.phase = "bad"]
    ELSE c6

---------------------------------------------------------------------------
\* OutputManager and the Core around it in src/core/main.rs.
OutputManager_new(offline_track) ==
    [cur_serial |-> U32v(0),
     cur_sequence |-> 0,
     playing_offline |-> FALSE,
     buffer |-> <<>>,
     play_queue |-> PlayQueue_new,
     offline_track |-> Track_from_ogg_track(0, offline_track),
     playing |-> None]

om_fill_buffer(o) ==
    LET popped == pop_track(o.play_queue)
        o1 == IF popped.track # None
              THEN [o EXCEPT !.play_queue = popped.queue,
                             !.playing_offline = FALSE,
                             !.playing = Some(get_track_info(popped.track[1]))]
              ELSE [o EXCEPT !.playing_offline = TRUE,
                             !.playing = None]
        track == IF popped.track # None THEN popped.track[1].track
                 ELSE o.offline_track.track
    IN [o1 EXCEPT !.cur_serial = wrapping_add(o.cur_serial, 0),
                  !.buffer = o.buffer \o update_serial(o.cur_serial, track)]

\* stamped: the serial the refill stamped, when there was a refill.
om_get_next_page(o) ==
    LET o1 == IF o.buffer = <<>> THEN om_fill_buffer(o) ELSE o
    IN [page |-> Head(o1.buffer),
        om |-> [o1 EXCEPT !.buffer = Tail(@)],
        stamped |-> IF o.buffer = <<>> THEN <<o.cur_serial>> ELSE <<>>]

\* page.body().starts_with(b"\x01vorbis")
page_starts_track(page) == page.packets # <<>> /\ page.packets[1].kind = "id"

RECURSIVE om_fast_forward_track_boundary(_)
om_fast_forward_track_boundary(o) ==
    LET r == om_get_next_page(o)
    IN IF page_starts_track(r.page)
       THEN [om |-> [r.om EXCEPT !.buffer = <<r.page>> \o @], stamped |-> r.stamped]
       ELSE LET r2 == om_fast_forward_track_boundary(r.om)
            IN [om |-> r2.om, stamped |-> r.stamped \o r2.stamped]

om_enqueue_track(o, req) ==
    IF req.track = <<>> THEN [om |-> o, stamped |-> <<>>, res |-> Err("InvalidTrack")]
    ELSE IF ~validate_positions(req.track)
    THEN [om |-> o, stamped |-> <<>>, res |-> Err("InvalidTrack")]
    ELSE IF ~validate_comment_section(req.track)
    THEN [om |-> o, stamped |-> <<>>, res |-> Err("InvalidTrack")]
    ELSE IF ~check_sample_rate(SampleRate, req.track)
    THEN [om |-> o, stamped |-> <<>>, res |-> Err("BadSampleRate")]
    ELSE LET added == add_track(o.play_queue, req.track)
             o1 == [o EXCEPT !.play_queue = added.queue]
         IN IF o1.playing_offline
            THEN LET r == om_fast_forward_track_boundary(o1)
                 IN [om |-> r.om, stamped |-> r.stamped, res |-> added.res]
            ELSE [om |-> o1, stamped |-> <<>>, res |-> added.res]

om_copy_page(o) ==
    LET r == om_get_next_page(o)
    IN [r EXCEPT !.om.playing =
            IF @ = None THEN None
            ELSE Some([@[1] EXCEPT !.sample_position = r.page.position])]

om_get_track_infos(o) == o.playing \o track_infos(o.play_queue)

RECURSIVE StampAll(_, _)
StampAll(hist, serials) ==
    IF serials = <<>> THEN hist
    ELSE StampAll(Stamp(hist, Head(serials)), Tail(serials))

InitOM ==
    /\ om = OutputManager_new(FA)
    /\ core = Core_new(U32v(0), FA)
    /\ ServerInit
    /\ handles = <<>>
    /\ started = <<>>
    /\ bus = Bus_new
    /\ pacer = Pacer_new
    /\ S0 = core.cur_serial
    /\ installed = SourceOf(core.offline_track.track)
    /\ panicked = FALSE
    /\ ticks = 0
    /\ reply = Reply("none", Ok(0))
    /\ out = NoPage
    /\ stamps = <<>>
    /\ dirty = FALSE
    /\ ff = FfIdle
    /\ c6 = C6Idle
    /\ vreq = Request(<<>>, None)
    /\ vres = Reply("none", Ok(0))

\* Core::tick of src/core/main.rs, after the pending commands: copy_page.
OMCopyPage ==
    /\ UNCHANGED server_vars
    /\ UNCHANGED <<bus, pacer>>
    /\ UNCHANGED <<handles, started>>
    /\ ticks < MaxTicks
    /\ LET r == om_copy_page(om)
       IN /\ om' = r.om
          /\ out' = r.page
          /\ stamps' = StampAll(stamps, r.stamped)
    /\ ticks' = ticks + 1
    /\ reply' = Reply("tick", Ok(0))
    /\ UNCHANGED <<core, panicked, installed, dirty, S0, ff, c6, vreq, vres>>

\* Core::tick of src/core/main.rs handling a pending EnqueueTrack command.
OMEnqueueTrack ==
    /\ UNCHANGED server_vars
    /\ UNCHANGED <<bus, pacer>>
    /\ UNCHANGED <<handles, started>>
    /\ om.play_queue.next_handle <= MaxHandle
    /\ \E req \in EnqueueRequests :
          LET r == om_enqueue_track(om, req)
          IN /\ om' = r.om
             /\ stamps' = StampAll(stamps, r.stamped)
             /\ reply' = Reply("enqueue", r.res)
    /\ UNCHANGED <<core, panicked, ticks, out, installed, dirty, S0, ff, c6, vreq, vres>>

\* Core::tick of src/core/main.rs handling a pending FastForward command.
OMFastForward ==
    /\ UNCHANGED server_vars
    /\ UNCHANGED <<bus, pacer>>
    /\ UNCHANGED <<handles, started>>
    /\ LET r == om_fast_forward_track_boundary(om)
       IN /\ om' = r.om
          /\ stamps' = StampAll(stamps, r.stamped)
    /\ reply' = Reply("fast_forward", Ok(0))
    /\ UNCHANGED <<core, panicked, ticks, out, installed, dirty, S0, ff, c6, vreq, vres>>

\* Core::tick of src/core/main.rs handling a pending QueueStatus command.
OMQueueStatus ==
    /\ UNCHANGED server_vars
    /\ UNCHANGED <<bus, pacer>>
    /\ UNCHANGED <<handles, started>>
    /\ reply' = [op |-> "queue_status", res |-> Ok(0), upcoming |-> om_get_track_infos(om)]
    /\ UNCHANGED <<core, om, panicked, ticks, out, stamps, installed, dirty, S0, ff, c6,
                   vreq, vres>>

NextOM == OMCopyPage \/ OMEnqueueTrack \/ OMFastForward \/ OMQueueStatus

SpecOM == InitOM /\ [][NextOM]_vars

---------------------------------------------------------------------------
\* The validation of submitted tracks, on every track of up to MaxPages pages
\* with granules 0 or 960 and any of the header packets present or absent.
MaxPages == 3

VPage(positions, i, packets) ==
    Pg("V", i, positions[i], i - 1, i = 1, i = Len(positions), FALSE,
       IF i = 1 THEN packets \o <<AudioPkt>> ELSE <<AudioPkt>>)

VTrack(positions, packets) ==
    [i \in 1..Len(positions) |-> VPage(positions, i, packets)]

VHeaders ==
    {ids \o comments : ids \in {<<>>, <<IdPkt(48000)>>, <<IdPkt(44100)>>},
                       comments \in {<<>>, <<CommentPkt("Xiph", <<"TITLE=orig">>)>>}}

VTracks ==
    {VTrack(positions, packets) :
        positions \in UNION {[1..n -> {0, 960}] : n \in 0..MaxPages},
        packets \in VHeaders}

InitV ==
    /\ vreq \in {Request(t, None) : t \in VTracks}
    /\ vres = Reply("none", Ok(0))
    /\ core = Core_new(U32v(0), FA)
    /\ ServerInit
    /\ handles = <<>>
    /\ started = <<>>
    /\ bus = Bus_new
    /\ pacer = Pacer_new
    /\ om = OutputManager_new(FA)
    /\ S0 = core.cur_serial
    /\ installed = SourceOf(core.offline_track.track)
    /\ panicked = FALSE
    /\ ticks = 0
    /\ reply = Reply("none", Ok(0))
    /\ out = NoPage
    /\ stamps = <<>>
    /\ dirty = FALSE
    /\ ff = FfIdle
    /\ c6 = C6Idle

\* EnqueueTrack(vreq) sent to the engine as constructed.
VEnqueueTrack ==
    /\ UNCHANGED server_vars
    /\ UNCHANGED <<bus, pacer>>
    /\ UNCHANGED <<handles, started>>
    /\ vres' = Reply("enqueue", enqueue_track(core, vreq).res)
    /\ UNCHANGED <<core, panicked, ticks, reply, out, stamps, installed, dirty, S0, ff, c6,
                   om, vreq>>

\* ReplaceFallback(vreq) sent to the engine as constructed.
VReplaceFallback ==
    /\ UNCHANGED server_vars
    /\ UNCHANGED <<bus, pacer>>
    /\ UNCHANGED <<handles, started>>
    /\ vres' = Reply("replace_fallback", replace_fallback(core, vreq).res)
    /\ UNCHANGED <<core, panicked, ticks, reply, out, stamps, installed, dirty, S0, ff, c6,
                   om, vreq>>

NextV == VEnqueueTrack \/ VReplaceFallback

SpecV == InitV /\ [][NextV]_vars

---------------------------------------------------------------------------
\* main starts cur_serial at 0. The engine around the built-in fallback is
\* taken with cur_serial at u32::MAX, one refill before the serial wraps: the
\* engine only copies serials, compares them and adds one to them.
InitCores == {Core_new(U32v(0), F5), Core_new(U32v(0), FEmpty),
              Core_new(<<W16 - 1, W16 - 1>>, FA)}

Init ==
    /\ core \in InitCores
    /\ ServerInit
    /\ handles = <<>>
    /\ started = <<>>
    /\ bus = Bus_new
    /\ pacer = Pacer_new
    /\ S0 = core.cur_serial
    /\ installed = SourceOf(core.offline_track.track)
    /\ panicked = FALSE
    /\ ticks = 0
    /\ reply = Reply("none", Ok(0))
    /\ out = NoPage
    /\ stamps = <<>>
    /\ dirty = FALSE
    /\ ff = FfIdle
    /\ c6 = C6Idle
    /\ om = OutputManager_new(FA)
    /\ vreq = Request(<<>>, None)
    /\ vres = Reply("none", Ok(0))

\* The tick thread: one Core::tick under the lock.
Tick ==
    /\ UNCHANGED server_vars
    /\ UNCHANGED <<bus, pacer>>
    /\ UNCHANGED handles
    /\ ~panicked
    /\ ticks < MaxTicks
    /\ \E sent \in SendResults :
       LET r == tick(core, sent)
       IN /\ core' = r.core
          /\ panicked' = r.panic
          /\ reply' = Reply("tick", IF r.panic THEN Err("panic") ELSE Ok(0))
          /\ IF r.panic
             THEN UNCHANGED <<ticks, out, stamps, ff, c6, started>>
             ELSE /\ ticks' = ticks + 1
                  /\ started' = IF r.core.play_queue # core.play_queue
                                THEN Append(started, r.core.playing[1].handle)
                                ELSE started
                  /\ out' = r.page
                  /\ stamps' = IF core.buffer = <<>> THEN Stamp(stamps, r.page.serial) ELSE stamps
                  /\ ff' = FfAfterTick(core, r.page)
                  /\ c6' = C6AfterTick(core, r.core, r.page)
    /\ UNCHANGED <<installed, dirty, S0, om, vreq, vres>>

\* An RPC thread serving EnqueueTrack.
EnqueueTrack ==
    /\ UNCHANGED server_vars
    /\ UNCHANGED <<bus, pacer, started>>
    /\ ~panicked
    /\ core.play_queue.next_handle <= MaxHandle
    /\ \E req \in EnqueueRequests :
          LET r == enqueue_track(core, req)
              ran_ff == r.core.buffer # core.buffer
          IN /\ core' = r.core
             /\ reply' = Reply("enqueue", r.res)
             /\ handles' = IF r.res.ok THEN Append(handles, r.res.handle) ELSE handles
             /\ ff' = IF ran_ff THEN FfAfterFastForward(core.buffer) ELSE ff
             /\ c6' = IF /\ r.res.ok
                         /\ WellShaped(req.track)
                         /\ core.playing_offline
                         /\ core.buffer # <<>>
                         /\ ~ff.active
                         /\ core.play_queue.items = <<>>
                      THEN [phase |-> "cont", left |-> LeadingContinued(core.buffer),
                            handle |-> r.res.handle]
                      ELSE C6Idle
    /\ dirty' = TRUE
    /\ UNCHANGED <<panicked, ticks, out, stamps, installed, S0, om, vreq, vres>>

\* An RPC thread serving FastForward.
FastForward ==
    /\ UNCHANGED server_vars
    /\ UNCHANGED <<bus, pacer>>
    /\ UNCHANGED <<handles, started>>
    /\ ~panicked
    /\ LET r == fast_forward(core)
       IN /\ core' = r.core
          /\ reply' = Reply("fast_forward", r.res)
    /\ ff' = FfAfterFastForward(core.buffer)
    /\ c6' = C6Idle
    /\ dirty' = TRUE
    /\ UNCHANGED <<panicked, ticks, out, stamps, installed, S0, om, vreq, vres>>

\* An RPC thread serving QueueStatus.
QueueStatus ==
    /\ UNCHANGED server_vars
    /\ UNCHANGED <<bus, pacer>>
    /\ UNCHANGED <<handles, started>>
    /\ ~panicked
    /\ reply' = [op |-> "queue_status", res |-> Ok(0),
                 upcoming |-> queue_status(core).upcoming]
    /\ UNCHANGED <<core, panicked, ticks, out, stamps, installed, dirty, S0, ff, c6,
                   om, vreq, vres>>

\* An RPC thread serving ReplaceFallback.
ReplaceFallback ==
    /\ UNCHANGED server_vars
    /\ UNCHANGED <<bus, pacer>>
    /\ UNCHANGED <<handles, started>>
    /\ ~panicked
    /\ \E req \in ReplaceFallbackRequests :
          LET r == replace_fallback(core, req)
          IN /\ core' = r.core
             /\ reply' = Reply("replace_fallback", r.res)
             /\ installed' = IF r.res.ok THEN SourceOf(req.track) ELSE installed
    /\ dirty' = TRUE
    /\ UNCHANGED <<panicked, ticks, out, stamps, S0, ff, c6, om, vreq, vres>>

Next == Tick \/ EnqueueTrack \/ FastForward \/ QueueStatus \/ ReplaceFallback

Spec == Init /\ [][Next]_vars

\* The engine around the built-in fallback with a tick thread that goes on:
\* the loop of start calls tick again after every sleep.
InitE == Init /\ SourceOf(core.offline_track.track) = "FA"

SpecE == InitE /\ [][Next]_vars /\ WF_vars(Tick)

---------------------------------------------------------------------------
\* The engine around a configured fallback file of any shape: main installs
\* the file as it is. Every file of up to MaxBPages pages, each page with or
\* without eos and, after the first, with or without continued.
MaxBPages == 3

BPage(i, eos, continued) ==
    Pg("B", i, 960 * (i - 1), i - 1, i = 1, eos, continued,
       IF i = 1 THEN Headers(48000) ELSE <<AudioPkt>>)

BTracks ==
    {[i \in 1..n |-> BPage(i, eos[i], i > 1 /\ continued[i])] :
        n \in 1..MaxBPages,
        eos \in [1..MaxBPages -> BOOLEAN], continued \in [1..MaxBPages -> BOOLEAN]}

InitB ==
    /\ core \in {Core_new(U32v(0), f) : f \in BTracks}
    /\ ServerInit
    /\ handles = <<>>
    /\ started = <<>>
    /\ bus = Bus_new
    /\ pacer = Pacer_new
    /\ S0 = core.cur_serial
    /\ installed = SourceOf(core.offline_track.track)
    /\ panicked = FALSE
    /\ ticks = 0
    /\ reply = Reply("none", Ok(0))
    /\ out = NoPage
    /\ stamps = <<>>
    /\ dirty = FALSE
    /\ ff = FfIdle
    /\ c6 = C6Idle
    /\ om = OutputManager_new(FA)
    /\ vreq = Request(<<>>, None)
    /\ vres = Reply("none", Ok(0))

NextB == Tick \/ FastForward

SpecB == InitB /\ [][NextB]_vars

---------------------------------------------------------------------------
\* eloop::control: the tick thread and one client_worker thread for each
\* connection, around one Mutex<Core>.

\* RequestType::from_op_code (ireul_rpc). The four numbers stand for the
\* codes of the four request types; every other number is unknown.
from_op_code(op_code) ==
    CASE op_code = 1 -> Some("EnqueueTrack")
      [] op_code = 2 -> Some("FastForward")
      [] op_code = 3 -> Some("QueueStatus")
      [] op_code = 4 -> Some("ReplaceFallback")
      [] OTHER -> None

\* core.lock() with no exclusion: the caller is let in at once.
lock_no_exclusion(m, t) == [blocked |-> FALSE, mutex |-> Some(t)]

\* core.lock().unwrap() by thread t: blocked while another thread holds the
\* guard.
lock(m, t) == [blocked |-> m # None, mutex |-> Some(t)]

\* A guard that is kept when its block ends.
drop_guard_forgotten(m) == m

\* The MutexGuard goes out of scope at the end of its block.
drop_guard(m) == None

\* A limit the frame length has to stay under.
frame_too_large_inclusive(frame_length) == BUFFER_SIZE_LIMIT <= frame_length

frame_too_large(frame_length) == BUFFER_SIZE_LIMIT < frame_length

\* client_worker returns (or its thread unwinds): the stream is dropped.
return_worker(w, err) ==
    [Worker_new EXCEPT !.pc = "closed", !.err = err, !.read = w.read]

\* What a read of the stream gives: eof when the client is gone, else a value.
ReadResults(values) == [eof : {FALSE}, value : values] \cup {[eof |-> TRUE, value |-> 0]}

\* The worker with the outcome of a read noted.
noted(w, r, value) == [w EXCEPT !.read = Append(@, IF r.eof THEN -1 ELSE value)]

read_version(w, r) ==
    IF r.eof THEN return_worker(noted(w, r, 0), "io")
    ELSE IF r.value # 0 THEN return_worker(noted(w, r, r.value), "invalid version")
    ELSE [noted(w, r, r.value) EXCEPT !.pc = "op_code"]

read_op_code(w, r) ==
    IF r.eof THEN return_worker(noted(w, r, 0), "io")
    ELSE IF r.value = 0 THEN return_worker(noted(w, r, r.value), "goodbye")
    ELSE IF from_op_code(r.value) = None
         THEN return_worker(noted(w, r, r.value), "unknown op-code")
    ELSE [noted(w, r, r.value) EXCEPT !.pc = "frame_length",
                                      !.req_type = from_op_code(r.value)[1]]

read_frame_length(w, r) ==
    IF r.eof THEN return_worker(noted(w, r, 0), "io")
    ELSE IF frame_too_large(r.value)
         THEN return_worker(noted(w, r, r.value), "datagram too large")
    ELSE [noted(w, r, r.value) EXCEPT !.pc = "payload", !.frame_length = r.value]

\* r.value bytes are there before the stream ends, of which take() lets
\* frame_length through; r.body is what proto::deserialize makes of a whole
\* payload, None when it fails and the unwrap panics.
read_payload(w, r) ==
    LET len == IF r.value > w.frame_length THEN w.frame_length ELSE r.value
    IN IF r.eof THEN return_worker(noted(w, r, 0), "io")
       ELSE IF len # w.frame_length THEN return_worker(noted(w, r, len), "datagram truncated")
       ELSE IF r.body = None THEN return_worker(noted(w, r, len), "panic")
       ELSE [noted(w, r, len) EXCEPT !.pc = "lock", !.req = r.body[1], !.frame_length = 0]

\* A write of the response that, when it fails, takes the track the engine
\* admitted last out of the queue again.
write_response_undo(c, w, written) ==
    IF written
    THEN [core |-> c,
          worker |-> [Worker_new EXCEPT !.calls = w.calls, !.replies = w.replies + 1]]
    ELSE [core |-> [c EXCEPT !.play_queue.items =
                        IF @ = <<>> THEN @ ELSE SubSeq(@, 1, Len(@) - 1)],
          worker |-> return_worker(w, "io")]

\* stream.write_u32 and stream.write_all of the response: the loop goes on,
\* or the write fails and the worker returns. The engine is out of reach.
write_response(c, w, written) ==
    IF written
    THEN [core |-> c,
          worker |-> [Worker_new EXCEPT !.calls = w.calls, !.replies = w.replies + 1]]
    ELSE [core |-> c, worker |-> return_worker(w, "io")]

\* The match on req_type: the engine operation and its response.
call(c, req_type, req) ==
    CASE req_type = "EnqueueTrack" ->
            LET r == enqueue_track(c, req)
            IN [core |-> r.core, resp |-> Reply("enqueue", r.res)]
      [] req_type = "FastForward" ->
            LET r == fast_forward(c)
            IN [core |-> r.core, resp |-> Reply("fast_forward", r.res)]
      [] req_type = "QueueStatus" ->
            [core |-> c, resp |-> [op |-> "queue_status", res |-> Ok(0),
                                   upcoming |-> queue_status(c).upcoming]]
      [] req_type = "ReplaceFallback" ->
            LET r == replace_fallback(c, req)
            IN [core |-> r.core, resp |-> Reply("replace_fallback", r.res)]

\* The values clients send.
Versions == {0, 1}
OpCodes == 0..5
FrameLengths == {8, BUFFER_SIZE_LIMIT, BUFFER_SIZE_LIMIT + 1}
PayloadsOf(req_type) ==
    CASE req_type = "EnqueueTrack" -> {Some(Request(TB, None)), Some(Request(T44, None)), None}
      [] req_type = "ReplaceFallback" -> {Some(Request(TB, None)), None}
      [] OTHER -> {Some(NoRequest), None}
PayloadResults(w) ==
    {[eof |-> e, value |-> n, body |-> b] :
        e \in BOOLEAN, n \in {w.frame_length - 1, w.frame_length, w.frame_length + 1},
        b \in PayloadsOf(w.req_type)}

\* A frame as the reads of one turn of the loop of client_worker find it.
Frame(version, op_code, frame_length, payload) ==
    [version |-> version, op_code |-> op_code, frame_length |-> frame_length,
     payload |-> payload]

Read(value) == [eof |-> FALSE, value |-> value]
Eof == [eof |-> TRUE, value |-> 0]

\* A well-formed frame of 8 bytes that decodes to req.
GoodFrame(op_code, req) ==
    Frame(Read(0), Read(op_code), Read(8), [eof |-> FALSE, value |-> 8, body |-> Some(req)])

\* The frames the connections of the server send: the five requests, a frame
\* of another version, and a client that is gone.
ServerFrames ==
    {GoodFrame(1, Request(TB, None)), GoodFrame(1, Request(T44, None)),
     GoodFrame(2, NoRequest), GoodFrame(3, NoRequest),
     GoodFrame(4, Request(TB, None)),
     Frame(Read(1), Eof, Eof, [eof |-> TRUE, value |-> 0, body |-> None]),
     Frame(Eof, Eof, Eof, [eof |-> TRUE, value |-> 0, body |-> None])}

\* One turn of the loop of client_worker up to the match on req_type: the
\* reads in their order, each one only if the one before let the loop go on.
receive(w, frame) ==
    LET w1 == read_version(w, frame.version)
        w2 == IF w1.pc = "closed" THEN w1 ELSE read_op_code(w1, frame.op_code)
        w3 == IF w2.pc = "closed" THEN w2 ELSE read_frame_length(w2, frame.frame_length)
    IN IF w3.pc = "closed" THEN w3 ELSE read_payload(w3, frame.payload)

InitS ==
    /\ core = Core_new(U32v(0), FA)
    /\ ServerInit
    /\ handles = <<>>
    /\ started = <<>>
    /\ bus = Bus_new
    /\ pacer = Pacer_new
    /\ om = OutputManager_new(FA)
    /\ S0 = core.cur_serial
    /\ installed = SourceOf(core.offline_track.track)
    /\ panicked = FALSE
    /\ ticks = 0
    /\ reply = Reply("none", Ok(0))
    /\ out = NoPage
    /\ stamps = <<>>
    /\ dirty = FALSE
    /\ ff = FfIdle
    /\ c6 = C6Idle
    /\ vreq = Request(<<>>, None)
    /\ vres = Reply("none", Ok(0))

\* What the threads of the server leave alone.
history_vars == <<panicked, reply, stamps, installed, dirty, S0, ff, c6, om, vreq, vres,
                  handles, started, bus, pacer>>

\* The tick thread, thread 0, takes the mutex.
TickLock ==
    /\ tick_thread = "sleep"
    /\ ticks < MaxServerTicks
    /\ ~lock(mutex, 0).blocked
    /\ mutex' = lock(mutex, 0).mutex
    /\ tick_thread' = "tick"
    /\ LET r == tick(lin.core, Ok(0))
       IN lin' = [lin EXCEPT !.core = r.core, !.page = r.page]
    /\ UNCHANGED <<core, ticks, out, workers, sink>>
    /\ UNCHANGED history_vars

\* exc_core.tick(), the write to the sink in it, and the drop of the guard.
TickUnlock ==
    /\ tick_thread = "tick"
    /\ \E sent \in SendResults :
          LET r == tick(core, sent)
          IN /\ core' = r.core
             /\ out' = r.page
             /\ sink' = sent
    /\ ticks' = ticks + 1
    /\ mutex' = drop_guard(mutex)
    /\ tick_thread' = "sleep"
    /\ UNCHANGED <<workers, lin>>
    /\ UNCHANGED history_vars

\* The worker of connection i reads a frame and decodes its payload.
Receive(i) ==
    /\ workers[i].pc = "version"
    /\ workers[i].calls < MaxRequests
    /\ \E frame \in ServerFrames :
          workers' = [workers EXCEPT ![i] = receive(@, frame)]
    /\ UNCHANGED <<core, ticks, out, mutex, tick_thread, lin, sink>>
    /\ UNCHANGED history_vars

\* core.lock().unwrap() of the worker; the engine operation starts with the
\* validation of the track when the request carries one.
Lock(i) ==
    /\ workers[i].pc = "lock"
    /\ ~lock(mutex, i).blocked
    /\ mutex' = lock(mutex, i).mutex
    /\ workers' = [workers EXCEPT ![i].pc =
            IF workers[i].req_type \in {"EnqueueTrack", "ReplaceFallback"}
            THEN "validate" ELSE "call"]
    /\ LET r == call(lin.core, workers[i].req_type, workers[i].req)
       IN lin' = [lin EXCEPT !.core = r.core, !.resp = r.resp]
    /\ UNCHANGED <<core, ticks, out, tick_thread, sink>>
    /\ UNCHANGED history_vars

\* The checks at the head of enqueue_track and replace_fallback; a track that
\* fails one is answered with the error and the guard is dropped.
Validate(i) ==
    /\ workers[i].pc = "validate"
    /\ LET r == call(core, workers[i].req_type, workers[i].req)
       IN IF r.resp.res.err \in {"InvalidTrack", "BadSampleRate"}
          THEN /\ workers' = [workers EXCEPT ![i].pc = "write", ![i].resp = r.resp,
                                             ![i].calls = @ + 1]
               /\ mutex' = drop_guard(mutex)
          ELSE /\ workers' = [workers EXCEPT ![i].pc = "rewrite"]
               /\ UNCHANGED mutex
    /\ UNCHANGED <<core, ticks, out, tick_thread, lin, sink>>
    /\ UNCHANGED history_vars

\* rewrite_comments of the track of the request.
Rewrite(i) ==
    /\ workers[i].pc = "rewrite"
    /\ workers' = [workers EXCEPT ![i].pc = "call"]
    /\ UNCHANGED <<core, ticks, out, mutex, tick_thread, lin, sink>>
    /\ UNCHANGED history_vars

\* The engine operation takes effect, and the guard is dropped at the end of
\* its block.
Call(i) ==
    /\ workers[i].pc = "call"
    /\ LET r == call(core, workers[i].req_type, workers[i].req)
       IN /\ core' = r.core
          /\ workers' = [workers EXCEPT ![i].pc = "write", ![i].resp = r.resp,
                                        ![i].calls = @ + 1]
    /\ mutex' = drop_guard(mutex)
    /\ UNCHANGED <<ticks, out, tick_thread, lin, sink>>
    /\ UNCHANGED history_vars

\* The response is written, or the write fails and the worker returns.
WriteReply(i) ==
    /\ workers[i].pc = "write"
    /\ \E written \in BOOLEAN :
          LET r == write_response(core, workers[i], written)
          IN /\ core' = r.core
             /\ workers' = [workers EXCEPT ![i] = r.worker]
    /\ UNCHANGED <<ticks, out, mutex, tick_thread, lin, sink>>
    /\ UNCHANGED history_vars

NextS ==
    \/ TickLock
    \/ TickUnlock
    \/ \E i \in Clients :
          \/ Receive(i) \/ Lock(i) \/ Validate(i) \/ Rewrite(i) \/ Call(i) \/ WriteReply(i)

SpecS == InitS /\ [][NextS]_vars

\* The server under a fair mutex: a thread that asks for the lock again and
\* again while it is free again and again gets it; a thread that holds the
\* guard goes on to the end of its block; a write of a reply returns. No
\* client has to send anything.
FairS ==
    /\ SF_vars(TickLock)
    /\ WF_vars(TickUnlock)
    /\ \A i \in Clients :
          /\ SF_vars(Lock(i))
          /\ WF_vars(Validate(i))
          /\ WF_vars(Rewrite(i))
          /\ WF_vars(Call(i))
          /\ WF_vars(WriteReply(i))

SpecL == InitS /\ [][NextS]_vars /\ FairS

---------------------------------------------------------------------------
\* One connection followed read by read, with nothing else running: the
\* engine operation of a request is then one step.
ReadVersion(i) ==
    /\ workers[i].pc = "version"
    /\ workers[i].calls < MaxFrames
    /\ \E r \in ReadResults(Versions) :
          workers' = [workers EXCEPT ![i] = read_version(@, r)]
    /\ UNCHANGED <<core, ticks, out, mutex, tick_thread, lin, sink>>
    /\ UNCHANGED history_vars

ReadOpCode(i) ==
    /\ workers[i].pc = "op_code"
    /\ \E r \in ReadResults(OpCodes) :
          workers' = [workers EXCEPT ![i] = read_op_code(@, r)]
    /\ UNCHANGED <<core, ticks, out, mutex, tick_thread, lin, sink>>
    /\ UNCHANGED history_vars

ReadFrameLength(i) ==
    /\ workers[i].pc = "frame_length"
    /\ \E r \in ReadResults(FrameLengths) :
          workers' = [workers EXCEPT ![i] = read_frame_length(@, r)]
    /\ UNCHANGED <<core, ticks, out, mutex, tick_thread, lin, sink>>
    /\ UNCHANGED history_vars

ReadPayload(i) ==
    /\ workers[i].pc = "payload"
    /\ \E r \in PayloadResults(workers[i]) :
          workers' = [workers EXCEPT ![i] = read_payload(@, r)]
    /\ UNCHANGED <<core, ticks, out, mutex, tick_thread, lin, sink>>
    /\ UNCHANGED history_vars

\* The request is served: lock, engine operation, guard dropped.
Serve(i) ==
    /\ workers[i].pc = "lock"
    /\ LET r == call(core, workers[i].req_type, workers[i].req)
       IN /\ core' = r.core
          /\ workers' = [workers EXCEPT ![i].pc = "write", ![i].resp = r.resp,
                                        ![i].calls = @ + 1]
    /\ UNCHANGED <<ticks, out, mutex, tick_thread, lin, sink>>
    /\ UNCHANGED history_vars

NextF ==
    \/ ReadVersion(1) \/ ReadOpCode(1) \/ ReadFrameLength(1) \/ ReadPayload(1)
    \/ Serve(1) \/ WriteReply(1)

SpecF == InitS /\ [][NextF]_vars

---------------------------------------------------------------------------
\* The pacing of the tick thread. Times and durations are in microseconds.

pacer_unchanged ==
    /\ UNCHANGED server_vars
    /\ UNCHANGED <<panicked, stamps, installed, dirty, S0, ff, c6, om, vreq, vres,
                   handles, started, bus>>

\* OggClock::wait_duration: the samples the page adds to its stream, at the
\* sample rate of the clock.
wait_duration(c, page) ==
    LET samples == IF page.serial = c.prev_ogg_serial /\ page.position >= c.prev_ogg_granule_pos
                   THEN page.position - c.prev_ogg_granule_pos
                   ELSE 0
    IN (samples * 1000) \div (SampleRate \div 1000)

\* Duration::num_milliseconds: whole milliseconds, rounded towards zero.
num_milliseconds(d) == IF d >= 0 THEN d \div 1000 ELSE -((-d) \div 1000)

\* `as u32` of an i64: the value modulo 2^32, in 16-bit halves.
as_u32(n) ==
    IF n >= 0 THEN <<(n \div W16) % W16, n % W16>>
    ELSE <<W16 - 1 - (((-n - 1) \div W16) % W16), W16 - 1 - ((-n - 1) % W16)>>

\* The time that passes between the SteadyTime::now() of tick and that of
\* the loop: the guard is dropped and the thread may be descheduled.
Elapsed == {0, 400, 1400, 21000}

\* exc_core.tick() under the lock: a page is emitted and the deadline is now
\* plus the wait of the clock for that page.
PacerTick ==
    /\ pacer.pc = "tick"
    /\ ticks < MaxTicks
    /\ \E sent \in SendResults :
          LET r == tick(core, sent)
              wait == wait_duration(core, r.page)
          IN /\ ~r.panic
             /\ core' = r.core
             /\ out' = r.page
             /\ pacer' = [pacer EXCEPT !.pc = "deadline", !.wait = wait,
                                        !.deadline = pacer.now + wait]
    /\ ticks' = ticks + 1
    /\ UNCHANGED reply
    /\ pacer_unchanged

\* let sleep_time = next_tick_deadline - SteadyTime::now(), and the argument
\* of sleep_ms.
PacerSleepTime ==
    /\ pacer.pc = "deadline"
    /\ \E elapsed \in Elapsed :
          LET now == pacer.now + elapsed
              sleep_time == pacer.deadline - now
          IN pacer' = [pacer EXCEPT !.pc = "sleep", !.now = now,
                                    !.sleep_ms = as_u32(num_milliseconds(sleep_time))]
    /\ UNCHANGED <<core, ticks, out, reply>>
    /\ pacer_unchanged

\* sleep_ms returns after that many milliseconds. A sleep of 2^16 seconds or
\* more does not return within the run.
PacerSleep ==
    /\ pacer.pc = "sleep"
    /\ pacer.sleep_ms[1] = 0
    /\ pacer' = [pacer EXCEPT !.pc = "tick", !.now = @ + pacer.sleep_ms[2] * 1000]
    /\ UNCHANGED <<core, ticks, out, reply>>
    /\ pacer_unchanged

NextP == PacerTick \/ PacerSleepTime \/ PacerSleep

SpecP == InitS /\ [][NextP]_vars

---------------------------------------------------------------------------
\* eloop::dbus: the message-bus transport in front of the same engine.

\* The methods start_helper adds to the interface, by the operation each
\* serves: add_m is called for new_enqueue_file_method alone.
core_interface ==
    [op \in {"EnqueueTrack", "FastForward", "QueueStatus", "ReplaceFallback"} |->
        IF op = "EnqueueTrack" THEN Some("EnqueueFile") ELSE None]

\* The items of a method call: a file descriptor, an array of pairs.
FdItem(track) == [kind |-> "fd", track |-> track, pairs |-> <<>>]
ArrayItem(pairs) == [kind |-> "array", track |-> <<>>, pairs |-> pairs]

\* Ok(EnqueueTrackRequest) or Err(InvalidArgs message); the second item is
\* printed and not used.
adapt_enqueue_track_req(items) ==
    IF Len(items) = 0 THEN [ok |-> FALSE, req |-> NoRequest]
    ELSE IF items[1].kind # "fd" THEN [ok |-> FALSE, req |-> NoRequest]
    ELSE [ok |-> TRUE, req |-> Request(items[1].track, None)]

\* The closure of the EnqueueFile method.
enqueue_file(c, items) ==
    LET adapted == adapt_enqueue_track_req(items)
        r == enqueue_track(c, adapted.req)
    IN IF ~adapted.ok THEN [core |-> c, reply |-> Reply("enqueue", Err("InvalidArgs"))]
       ELSE [core |-> r.core, reply |-> Reply("enqueue", r.res)]

\* What the tree answers a call of a method the interface does not have.
unknown_method(c, op) == [core |-> c, reply |-> Reply(op, Err("UnknownMethod"))]

\* The op names of the replies of call.
ReplyOp(op) ==
    CASE op = "EnqueueTrack" -> "enqueue"
      [] op = "FastForward" -> "fast_forward"
      [] op = "QueueStatus" -> "queue_status"
      [] op = "ReplaceFallback" -> "replace_fallback"

\* The tracks and the metadata arrays sent over both transports.
BusTracks == {TB, T44}
BusMetadata == {<<>>, <<"ARTIST=X", "TITLE=Y">>}

bus_unchanged ==
    /\ UNCHANGED server_vars
    /\ UNCHANGED <<panicked, stamps, installed, dirty, S0, ff, c6, om, vreq, vres,
                   handles, started, pacer>>

\* The same EnqueueTrack, a track and a metadata array, made over the bus to
\* one engine and over TCP to the other.
BusEnqueueFile ==
    /\ core.play_queue.next_handle <= MaxHandle
    /\ bus.core.play_queue.next_handle <= MaxHandle
    /\ \E track \in BusTracks : \E pairs \in BusMetadata :
          LET b == enqueue_file(bus.core, <<FdItem(track), ArrayItem(pairs)>>)
              t == call(core, "EnqueueTrack", Request(track, Some(pairs)))
          IN /\ bus' = [core |-> b.core, reply |-> b.reply]
             /\ core' = t.core
             /\ reply' = t.resp
    /\ UNCHANGED <<ticks, out>>
    /\ bus_unchanged

\* One of the other three operations, called over the bus on one engine and
\* sent over TCP to the other.
BusOther(op) ==
    /\ core_interface[op] = None
    /\ LET b == unknown_method(bus.core, ReplyOp(op))
           t == call(core, op, IF op = "ReplaceFallback" THEN Request(TB, None)
                               ELSE NoRequest)
       IN /\ bus' = [core |-> b.core, reply |-> b.reply]
          /\ core' = t.core
          /\ reply' = t.resp
    /\ UNCHANGED <<ticks, out>>
    /\ bus_unchanged

\* Both engines tick.
BusTick ==
    /\ ticks < MaxTicks
    /\ LET b == tick(bus.core, Ok(0))
           t == tick(core, Ok(0))
       IN /\ ~b.panic /\ ~t.panic
          /\ bus' = [bus EXCEPT !.core = b.core]
          /\ core' = t.core
          /\ out' = t.page
    /\ ticks' = ticks + 1
    /\ UNCHANGED reply
    /\ bus_unchanged

NextD ==
    \/ BusEnqueueFile
    \/ \E op \in {"FastForward", "QueueStatus", "ReplaceFallback"} : BusOther(op)
    \/ BusTick

SpecD == InitS /\ [][NextD]_vars



---------------------------------------------------------------------------
\* A step of the tick thread that emitted a page after an earlier one.
EmittedNext == ticks' = ticks + 1 /\ ticks >= 1

\* C1 (fast-forward closure): once the track a fast-forward interrupted has
\* been emitted to its end, exactly one eos page was emitted for it after the
\* fast-forward, and that page had the granule of the page emitted just
\* before it and that page's sequence number plus one.
C1_FastForwardClosure == ff.closed => (ff.eos = 1 /\ ff.ok)

\* C2 (sequence continuity within a run): two pages emitted one after the
\* other with the same serial have sequence numbers that differ by one.
C2_SequenceContinuity ==
    [][(EmittedNext /\ out'.serial = out.serial) => out'.sequence = out.sequence + 1]_vars

\* C3 (monotone granule across splice): within a serial run the granule never
\* decreases from one emitted page to the next, and the first page after a
\* change of serial has granule 0.
C3_MonotoneGranule ==
    [][EmittedNext =>
          IF out'.serial = out.serial THEN out'.position >= out.position
          ELSE out'.position = 0]_vars

\* C5 (admission errors leave the engine unchanged): an enqueue that returns
\* an error leaves every field of the engine as it was, and a replace_fallback
\* that returns an error leaves the fallback as it was.
C5_ErrorsLeaveEngineUnchanged ==
    [][/\ (reply'.op = "enqueue" /\ ~reply'.res.ok) => core' = core
       /\ (reply'.op = "replace_fallback" /\ ~reply'.res.ok)
              => core'.offline_track = core.offline_track]_vars

\* C6 (enqueue while offline): after an enqueue accepted while the fallback
\* plays with some but not all of its pages emitted, the ticks emit the
\* fallback's leading continued pages, then one eos page continuing the page
\* before it, then the first page of the admitted track at granule 0 under
\* the next serial.
C6_EnqueueWhileOffline == c6.phase # "bad"

\* C10 (admitted-track shape): every track in the play queue, and a fallback
\* installed by replace_fallback, starts at granule 0 with bos, ends with eos
\* and has non-decreasing granules.
C10_AdmittedTrackShape ==
    /\ \A i \in 1..Len(core.play_queue.items) : WellShaped(core.play_queue.items[i].track)
    /\ installed \notin {SourceOf(f) : f \in InitFallbacks}
           => WellShaped(core.offline_track.track)

\* C7 (replace fallback): an accepted replace_fallback stores the submitted
\* track as the fallback and changes no other field of the engine; a refill
\* that finds the queue empty loads the pages of the fallback last installed.
C7_ReplaceFallback ==
    [][/\ (reply'.op = "replace_fallback" /\ reply'.res.ok)
              => /\ core' = [core EXCEPT !.offline_track = core'.offline_track]
                 /\ SourceOf(core'.offline_track.track) = installed'
       /\ (reply'.op = "tick" /\ ~panicked' /\ core.buffer = <<>>
              /\ core.play_queue.items = <<>>)
              => /\ out'.src = installed /\ out'.idx = 1
                 /\ \A i \in 1..Len(core'.buffer) :
                        core'.buffer[i].src = installed /\ core'.buffer[i].idx = i + 1]_vars

\* A page of the replacement fallback is emitted.
C7_Witness == installed = "TB" /\ out.src = "TB" /\ reply.op = "tick"

\* C8 (fallback loop): with no enqueue, fast-forward or replace requested,
\* tick i emits page ((i - 1) mod n) of the n-page fallback, as stored but for
\* the serial, which is S0 + (i - 1) div n modulo 2^32.
C8_FallbackLoop ==
    (~dirty /\ ticks >= 1) =>
        LET f == core.offline_track.track
            n == Len(f)
        IN /\ f \in InitFallbacks
           /\ out = [f[((ticks - 1) % n) + 1] EXCEPT
                         !.serial = wrapping_add(S0, (ticks - 1) \div n)]

\* The loop has started over, under the serial that wrapped to 0.
C8_Witness ==
    /\ ~dirty /\ installed = "FA" /\ ticks = Len(FA) + 1
    /\ out.idx = 1 /\ out.serial = U32v(0) /\ S0 = <<W16 - 1, W16 - 1>>

---------------------------------------------------------------------------
\* C4 (unique serial rotation): of two tracks refilled one after the other,
\* the second is stamped with the serial of the first plus one modulo 2^32,
\* in the Core engine and in the OutputManager engine alike.
C4_UniqueSerialRotation ==
    Len(stamps) = 2 => stamps[2] = wrapping_add(stamps[1], 1)

\* The checks on a submitted track, each by what it asks of the track.
NonEmpty(track) == track # <<>>
FirstGranuleZero(track) == track[1].position = 0
GranuleNonDecreasing(track) ==
    \A i \in 2..Len(track) : track[i].position >= track[i - 1].position
PacketsOf(track, kind) ==
    {<<i, j>> \in (1..Len(track)) \X (1..2) :
        j <= Len(track[i].packets) /\ track[i].packets[j].kind = kind}
IdentificationAtRate(track) ==
    \E p \in PacketsOf(track, "id") : track[p[1]].packets[p[2]].rate = SampleRate
CommentPresent(track) == PacketsOf(track, "comment") # {}

ErrorOf(res) == IF res.ok THEN "" ELSE res.err

\* C9 (validation order): the error reported is that of the first failing
\* check in the order non-empty, first granule 0, granules non-decreasing,
\* identification header at the engine's sample rate, comment header.
C9_ValidationOrder ==
    vres.op \in {"enqueue", "replace_fallback"} =>
        ErrorOf(vres.res) =
            IF ~NonEmpty(vreq.track) THEN "InvalidTrack"
            ELSE IF ~FirstGranuleZero(vreq.track) THEN "InvalidTrack"
            ELSE IF ~GranuleNonDecreasing(vreq.track) THEN "InvalidTrack"
            ELSE IF ~IdentificationAtRate(vreq.track) THEN "BadSampleRate"
            ELSE IF ~CommentPresent(vreq.track) THEN "InvalidTrack"
            ELSE ""

\* C9 as amended: the comment header is checked before the identification
\* header and its sample rate.
C9_ValidationOrderAmended ==
    vres.op \in {"enqueue", "replace_fallback"} =>
        ErrorOf(vres.res) =
            IF ~NonEmpty(vreq.track) THEN "InvalidTrack"
            ELSE IF ~FirstGranuleZero(vreq.track) THEN "InvalidTrack"
            ELSE IF ~GranuleNonDecreasing(vreq.track) THEN "InvalidTrack"
            ELSE IF ~CommentPresent(vreq.track) THEN "InvalidTrack"
            ELSE IF ~IdentificationAtRate(vreq.track) THEN "BadSampleRate"
            ELSE ""

\* A track at the wrong sample rate and without a comment header was
\* submitted and reported as InvalidTrack.
C9_Witness ==
    /\ vres.op = "enqueue" /\ vres.res.err = "InvalidTrack"
    /\ NonEmpty(vreq.track) /\ FirstGranuleZero(vreq.track)
    /\ GranuleNonDecreasing(vreq.track)
    /\ ~IdentificationAtRate(vreq.track) /\ PacketsOf(vreq.track, "id") # {}
    /\ ~CommentPresent(vreq.track)

---------------------------------------------------------------------------
\* C11 (now_playing / playing_offline consistency): in every state between
\* operations, the initial one included, now_playing is present if and only
\* if playing_offline is false.
C11_NowPlayingConsistency == (core.playing # None) <=> ~core.playing_offline

\* The handles of the track being played and of the queued tracks.
UpcomingHandles(c) ==
    {c.playing[i].handle : i \in 1..Len(c.playing)}
        \cup {c.play_queue.items[i].handle : i \in 1..Len(c.play_queue.items)}

\* C12 (status): queue_status returns now_playing, if present, followed by
\* the infos of the queued tracks in admission order, and changes no engine
\* state; a track is among the upcoming ones from its admission until the
\* refill that follows its last page, and never twice.
C12_Status ==
    [][/\ (reply'.op = "queue_status" /\ reply' # reply) =>
            /\ core' = core
            /\ LET up == reply'.upcoming
                   n == Len(core.playing)
               IN /\ Len(up) = n + Len(core.play_queue.items)
                  /\ n = 1 => up[1] = core.playing[1]
                  /\ \A i \in 1..Len(core.play_queue.items) :
                        up[n + i] = [handle |-> core.play_queue.items[i].handle,
                                     sample_position |-> 0]
                  /\ \A i \in 1..Len(up) : \A j \in 1..Len(up) :
                        i < j => up[i].handle < up[j].handle
       /\ LET refilled == core'.cur_serial # core.cur_serial
              admitted == reply'.op = "enqueue" /\ reply'.res.ok /\ reply' # reply
              gone == IF refilled THEN {core.playing[i].handle : i \in 1..Len(core.playing)}
                      ELSE {}
              come == IF admitted THEN {reply'.res.handle} ELSE {}
          IN /\ UpcomingHandles(core') = (UpcomingHandles(core) \ gone) \cup come
             /\ come \cap UpcomingHandles(core) = {}
             /\ Len(core'.playing) + Len(core'.play_queue.items)
                    = Cardinality(UpcomingHandles(core'))]_vars

\* A status request answered with the track being played, part of it
\* emitted, followed by a queued track.
C12_Witness ==
    /\ reply.op = "queue_status"
    /\ Len(reply.upcoming) = 2
    /\ core.playing # None
    /\ reply.upcoming[1].sample_position > 0

\* The threads that are inside a block that holds the guard of the mutex.
CriticalThreads ==
    (IF tick_thread = "tick" THEN {0} ELSE {})
        \cup {i \in Clients : workers[i].pc \in {"validate", "rewrite", "call"}}

\* C13 (mutual exclusion and linearizability): no two of tick, enqueue,
\* fast_forward, status and replace_fallback overlap; whenever the mutex is
\* free the engine and the last emitted page are those of the sequential run
\* that takes the operations whole in the order the mutex was acquired, and
\* every response a worker gets is the response of that run.
C13_MutualExclusion ==
    /\ [](/\ Cardinality(CriticalThreads) <= 1
          /\ \A t \in CriticalThreads : mutex = Some(t)
          /\ mutex = None => (core = lin.core /\ out = lin.page))
    /\ [][\A i \in Clients :
            (workers[i].pc # "write" /\ workers'[i].pc = "write")
                => workers'[i].resp = lin.resp]_vars

\* The tick thread holds the mutex after an earlier tick, one worker waits
\* for it with a request, and the other has had its request served.
C13_Witness ==
    /\ tick_thread = "tick"
    /\ ticks >= 1
    /\ \E i \in Clients : \E j \in Clients :
          /\ workers[i].pc = "lock"
          /\ workers[j].replies = 1

\* C14 (pre-validation off-lock): no RPC thread holds the engine mutex while
\* the track of its EnqueueTrack or ReplaceFallback request is validated or
\* its comments are rewritten.
C14_PreValidationOffLock ==
    \A i \in Clients :
        workers[i].pc \in {"validate", "rewrite"} => mutex # Some(i)

\* What the values a worker has read in this turn of its loop ask of it: a
\* version other than 0, an op-code that is 0 or unknown, a length above
\* 20 MiB, a payload shorter than the length or a failed read end the
\* connection at that read; anything else lets the loop go on to the next
\* read, and after the payload to the engine and the reply.
FramingOf(w) ==
    LET r == w.read
        n == Len(r)
        closed_at(k) == w.pc = "closed" /\ n = k
        bad1 == n >= 1 /\ r[1] # 0
        bad2 == n >= 2 /\ (r[2] <= 0 \/ from_op_code(r[2]) = None)
        bad3 == n >= 3 /\ (r[3] < 0 \/ r[3] > 20 * 1048576)
        bad4 == n >= 4 /\ r[4] # r[3]
    IN /\ n <= 4
       /\ n = 0 => w.pc = "version"
       /\ bad1 => closed_at(1)
       /\ bad2 => closed_at(2)
       /\ bad3 => closed_at(3)
       /\ bad4 => closed_at(4)
       /\ (n = 1 /\ ~bad1) => w.pc = "op_code"
       /\ (n = 2 /\ ~bad2) => w.pc = "frame_length"
       /\ (n = 3 /\ ~bad3) => w.pc = "payload"
       /\ (n = 4 /\ ~bad4) =>
             \/ w.pc \in {"lock", "write"}
             \/ w.pc = "closed" /\ w.err \in {"panic", "io"}

\* C15 (RPC frame handling): version, op-code, length and payload are read
\* in that order; a bad version, an unknown op-code, a length above 20 MiB
\* or a truncated payload ends the connection with no engine operation
\* invoked, op-code 0 ends it before the length is read, a frame of exactly
\* 20 MiB is accepted, and every request that reached the engine has its one
\* reply written before the next request is read.
C15_FrameHandling ==
    /\ [](\A i \in Clients :
            /\ FramingOf(workers[i])
            /\ workers[i].pc = "write" => workers[i].calls = workers[i].replies + 1
            /\ workers[i].pc \in {"version", "op_code", "frame_length", "payload", "lock"}
                  => workers[i].calls = workers[i].replies)
    /\ [][\A i \in Clients :
            /\ (workers[i].pc # "closed" /\ workers'[i].pc = "closed") => core' = core
            /\ (workers'[i] # workers[i] /\ core' # core) =>
                  /\ Len(workers[i].read) = 4
                  /\ workers[i].pc = "lock" /\ workers'[i].pc = "write"
            /\ (workers'[i] # workers[i] /\ workers[i].pc = "write") =>
                  \/ workers'[i].pc = "closed"
                  \/ /\ workers'[i].pc = "version"
                     /\ workers'[i].replies = workers[i].replies + 1]_vars

\* A second request, framed in exactly 20 MiB, has been served after the
\* first was answered, and its reply is about to be written.
C15_Witness ==
    /\ workers[1].pc = "write"
    /\ workers[1].read[3] = 20 * 1048576
    /\ workers[1].replies = 1

\* C16 (client isolation): when a connection ends, on a framing failure, a
\* client that is gone or a response that could not be written, nothing
\* but that connection changes: the engine keeps what the requests of the
\* client did to it, the tick thread and the other connections are where
\* they were, and the mutex is not left held by the worker that returned.
C16_ClientIsolation ==
    /\ [](\A i \in Clients : workers[i].pc = "closed" => mutex # Some(i))
    /\ [][\A i \in Clients :
            (workers[i].pc # "closed" /\ workers'[i].pc = "closed") =>
                /\ core' = core
                /\ mutex' = mutex /\ mutex # Some(i)
                /\ tick_thread' = tick_thread /\ ticks' = ticks /\ out' = out
                /\ \A j \in Clients \ {i} : workers'[j] = workers[j]]_vars

\* The response to the EnqueueTrack of connection 1 could not be written;
\* its track and the track of connection 2, which was answered, are both
\* upcoming, and the tick thread has emitted a page.
C16_Witness ==
    /\ workers[1].pc = "closed" /\ workers[1].err = "io"
    /\ workers[1].read = <<0, 1, 8, 8>>
    /\ workers[2].replies = 1
    /\ ticks >= 1
    /\ Cardinality(UpcomingHandles(core)) = 2

\* C17 (sink write failure is swallowed): a tick whose write to the sink
\* fails consumes the page, records its granule, serial and sequence, moves
\* the sample position of the track being played, leaves the engine where
\* a successful write leaves it, hands the same page to the clock for the
\* deadline, and the tick thread goes on to its next turn.
C17_SinkFailureSwallowed ==
    [][(ticks' = ticks + 1 /\ ~sink'.ok) =>
          LET good == tick(core, Ok(0))
          IN /\ core' = good.core
             /\ out' = good.page
             /\ core'.prev_ogg_granule_pos = out'.position
             /\ core'.prev_ogg_serial = out'.serial
             /\ core'.prev_ogg_sequence = out'.sequence
             /\ core'.playing # None => core'.playing[1].sample_position = out'.position
             /\ Len(core'.buffer) + 1 =
                   Len(IF core.buffer = <<>> THEN fill_buffer(core).buffer ELSE core.buffer)
             /\ tick_thread' = "sleep" /\ mutex' = None]_vars

\* The write of the second page of a queued track has just failed.
C17_Witness ==
    /\ ~sink.ok
    /\ ticks >= 2
    /\ core.playing # None
    /\ core.playing[1].sample_position > 0
    /\ out.position = core.playing[1].sample_position

\* C18 (queue bound): the play queue never holds more tracks than its
\* capacity, and an enqueue answered Full found the queue at its capacity
\* and left its tracks and its length as they were.
C18_QueueBound ==
    /\ [](Len(core.play_queue.items) <= Capacity)
    /\ [][(reply'.op = "enqueue" /\ reply'.res.err = "Full") =>
             /\ Len(core.play_queue.items) = Capacity
             /\ core'.play_queue.items = core.play_queue.items
             /\ Len(core'.play_queue.items) = Capacity]_vars

\* An enqueue was answered Full with the queue at its capacity.
C18_Witness ==
    /\ reply.op = "enqueue" /\ reply.res.err = "Full"
    /\ Len(core.play_queue.items) = Capacity

\* C19 (handle uniqueness): the handles returned by the accepted enqueues
\* are increasing, so none is returned twice; the tracks being played and
\* queued carry distinct handles out of those; and Handle(0) is the handle
\* of the fallback, first or replaced, and of no admitted track.
C19_HandleUniqueness ==
    /\ \A i \in 1..Len(handles) : handles[i] # 0
    /\ \A i \in 1..Len(handles) : \A j \in 1..Len(handles) :
          i < j => handles[i] < handles[j]
    /\ UpcomingHandles(core) \subseteq {handles[i] : i \in 1..Len(handles)}
    /\ Cardinality(UpcomingHandles(core))
          = Len(core.playing) + Len(core.play_queue.items)
    /\ core.offline_track.handle = 0

\* Three enqueues were accepted, the last one after the first track had left
\* the queue, and the fallback has been replaced.
C19_Witness ==
    /\ Len(handles) = 3
    /\ installed = "TB"
    /\ core.playing # None

\* The request a stored or emitted page of source src came in.
SubmittedAs(src) ==
    CHOOSE req \in EnqueueRequests \cup ReplaceFallbackRequests :
        req.track # <<>> /\ req.track[1].src = src /\ src \in {"TB", "TC", "TNoEos"}

\* got holds the packets of page orig with the comment packet as the
\* request asks for it.
PacketsSubstituted(orig, metadata, got) ==
    /\ Len(got.packets) = Len(orig.packets)
    /\ \A k \in 1..Len(orig.packets) :
          IF orig.packets[k].kind = "comment"
          THEN /\ got.packets[k].kind = "comment"
               /\ got.packets[k].vendor = "Ireul Core"
               /\ got.packets[k].entries =
                     IF metadata # None THEN metadata[1] ELSE orig.packets[k].entries
          ELSE got.packets[k] = orig.packets[k]

\* track is what the engine keeps of the request with source src.
StoredAsSubmitted(track) ==
    LET req == SubmittedAs(track[1].src)
    IN /\ Len(track) = Len(req.track)
       /\ \A i \in 1..Len(track) :
             /\ track[i].position = req.track[i].position
             /\ track[i].serial = req.track[i].serial
             /\ track[i].sequence = req.track[i].sequence
             /\ track[i].bos = req.track[i].bos
             /\ track[i].eos = req.track[i].eos
             /\ track[i].continued = req.track[i].continued
             /\ PacketsSubstituted(req.track[i], req.metadata, track[i])

\* C20 (metadata substitution): every admitted track and every replaced
\* fallback is kept, and every page of it is emitted, with a comment packet
\* of vendor "Ireul Core" whose entries are the metadata of the request, or
\* the original entries when the request has none; the pages are as many as
\* submitted and keep granule, serial, sequence, bos, eos and continued.
C20_MetadataSubstitution ==
    /\ \A i \in 1..Len(core.play_queue.items) :
          StoredAsSubmitted(core.play_queue.items[i].track)
    /\ installed = "TB" => StoredAsSubmitted(core.offline_track.track)
    /\ out.src \in {"TB", "TC", "TNoEos"} =>
          LET req == SubmittedAs(out.src)
          IN PacketsSubstituted(req.track[out.idx], req.metadata, out)

\* The page with the comment packet of the track enqueued with metadata has
\* just been emitted.
C20_Witness ==
    /\ reply.op = "tick"
    /\ out.src = "TC"
    /\ \E k \in 1..Len(out.packets) :
          /\ out.packets[k].kind = "comment"
          /\ out.packets[k].entries = <<"ARTIST=X", "TITLE=Y">>

---------------------------------------------------------------------------
\* C21 (transport equivalence): the bus offers the four operations of the TCP
\* transport, and an operation made over the bus, an EnqueueTrack with a track
\* and a metadata array among them, leaves the engine as the same request
\* made over TCP leaves it and is answered with the same handle or error.
C21_TransportEquivalence ==
    /\ bus.core = core
    /\ bus.reply.res = reply.res

\* The same enqueue with metadata was admitted over both transports and the
\* two engines keep different tracks.
C21_Diverged ==
    /\ reply.op = "enqueue" /\ reply.res.ok
    /\ bus.reply.op = "enqueue" /\ bus.reply.res = reply.res
    /\ bus.core.play_queue # core.play_queue

---------------------------------------------------------------------------
\* The index in buf of the first eos page at or after the first page that is
\* not a continued page, 0 when there is none.
EosFromFirstNonContinued(buf) ==
    LET k == continued_prefix(buf)
        eoss == {i \in (k + 1)..Len(buf) : buf[i].eos}
    IN IF eoss = {} THEN 0 ELSE CHOOSE i \in eoss : \A i2 \in eoss : i <= i2

\* C22 (fast-forward eos search): a fast-forward keeps the leading continued
\* pages, takes the first eos page at or after the first non-continued page,
\* that page itself when it is an eos page, rewrites it to continue the page
\* emitted last and keeps it, drops the pages in between, and leaves the
\* pages after the eos page as they were and in order.
C22_EosSearchInclusive ==
    [][(reply'.op = "fast_forward" /\ EosFromFirstNonContinued(core.buffer) # 0) =>
          LET buf == core.buffer
              k == continued_prefix(buf)
              j == EosFromFirstNonContinued(buf)
          IN core'.buffer =
                SubSeq(buf, 1, k)
                \o <<[buf[j] EXCEPT !.position = core.prev_ogg_granule_pos,
                                    !.serial = core.prev_ogg_serial,
                                    !.sequence = core.prev_ogg_sequence + 1]>>
                \o SubSeq(buf, j + 1, Len(buf))]_vars

\* C23 (fast-forward without eos): a fast-forward on a buffer with no eos
\* page at or after its first non-continued page leaves the buffer empty.
C23_NoEosEmptiesBuffer ==
    [][(reply'.op = "fast_forward" /\ EosFromFirstNonContinued(core.buffer) = 0)
          => core'.buffer = <<>>]_vars

\* C23 as amended: such a fast-forward leaves the leading continued pages
\* and nothing else, so the buffer is empty when there are none; the tick
\* that finds the buffer empty refills from the queue or the fallback and
\* emits the first page of what it loaded.
C23_NoEosKeepsContinued ==
    [][/\ (reply'.op = "fast_forward" /\ EosFromFirstNonContinued(core.buffer) = 0)
            => core'.buffer = SubSeq(core.buffer, 1, continued_prefix(core.buffer))
       /\ (reply'.op = "tick" /\ ~panicked' /\ core.buffer = <<>>)
            => /\ core'.cur_serial = wrapping_add(core.cur_serial, 1)
               /\ out'.serial = core.cur_serial
               /\ out'.idx = 1
               /\ IF core.play_queue.items = <<>>
                  THEN core'.playing_offline /\ out'.src = installed
                  ELSE ~core'.playing_offline
                       /\ out'.src = core.play_queue.items[1].track[1].src
       /\ (reply'.op = "tick" /\ core.buffer # <<>>)
            => core'.cur_serial = core.cur_serial]_vars

\* A fast-forward dropped pages of a fallback that has no eos page and left
\* continued pages in the buffer.
C23_Witness ==
    /\ reply.op = "fast_forward"
    /\ \A i \in 1..Len(core.offline_track.track) : ~core.offline_track.track[i].eos
    /\ core.playing_offline
    /\ ticks = 1
    /\ core.buffer # <<>>
    /\ \A i \in 1..Len(core.buffer) : core.buffer[i].continued
    /\ ticks + Len(core.buffer) < Len(core.offline_track.track)

---------------------------------------------------------------------------
\* C24 (serial separation): between operations cur_serial differs from the
\* serial of every page in the buffer, the eos page a fast-forward rewrote to
\* prev_serial included, also when cur_serial has wrapped from 2^32 - 1 to 0.
C24_SerialSeparation ==
    \A i \in 1..Len(core.buffer) : core.buffer[i].serial # core.cur_serial

\* The buffer starts with an eos page a fast-forward has rewritten, under
\* serial 2^32 - 1, and cur_serial has wrapped to 0.
C24_Witness ==
    /\ reply.op = "fast_forward"
    /\ S0 = <<W16 - 1, W16 - 1>>
    /\ core.cur_serial = U32v(0)
    /\ core.buffer # <<>>
    /\ core.buffer[1].eos
    /\ core.buffer[1].position = core.prev_ogg_granule_pos
    /\ core.buffer[1].position # 960 * (core.buffer[1].idx - 1)
    /\ core.buffer[1].serial = core.prev_ogg_serial
    /\ core.buffer[1].serial = S0

---------------------------------------------------------------------------
\* C25 (single-track buffer): between operations the pages of a non-empty
\* buffer have one serial and sequence numbers that go up by one from each
\* page to the next, also after a fast-forward that kept leading continued
\* pages and put the rewritten eos page behind them.
C25_SingleTrackBuffer ==
    \A i \in 2..Len(core.buffer) :
        /\ core.buffer[i].serial = core.buffer[i - 1].serial
        /\ core.buffer[i].sequence = core.buffer[i - 1].sequence + 1

\* A fast-forward kept a continued page and put the rewritten eos page
\* behind it under the same sequence number.
C25_Repeated ==
    /\ reply.op = "fast_forward"
    /\ Len(core.buffer) = 2
    /\ core.buffer[1].continued
    /\ core.buffer[2].eos
    /\ core.buffer[2].sequence = core.buffer[1].sequence

---------------------------------------------------------------------------
\* C26 (enqueue during a queued track does not cut it): an enqueue accepted
\* while playing_offline is false leaves the buffer, cur_serial, the prev_
\* fields and now_playing as they were and adds one entry at the tail of the
\* queue; an enqueue changes the buffer only when playing_offline is true.
C26_EnqueueDoesNotCut ==
    [][/\ (reply'.op = "enqueue" /\ reply'.res.ok /\ ~core.playing_offline) =>
            /\ core' = [core EXCEPT !.play_queue = core'.play_queue]
            /\ Len(core'.play_queue.items) = Len(core.play_queue.items) + 1
            /\ SubSeq(core'.play_queue.items, 1, Len(core.play_queue.items))
                   = core.play_queue.items
            /\ core'.play_queue.items[Len(core'.play_queue.items)].handle
                   = reply'.res.handle
       /\ (reply'.op = "enqueue" /\ core'.buffer # core.buffer) => core.playing_offline]_vars

\* An enqueue was accepted behind another queued track while a queued track
\* plays with pages of it still in the buffer.
C26_Witness ==
    /\ reply.op = "enqueue" /\ reply.res.ok
    /\ ~core.playing_offline
    /\ core.playing # None
    /\ core.playing[1].sample_position > 0
    /\ core.buffer # <<>>
    /\ Len(core.play_queue.items) = 2
    /\ core.play_queue.items[2].handle = reply.res.handle

---------------------------------------------------------------------------
\* C27 (the pacer sleep is outside the lock): the tick thread does not hold
\* the mutex while it sleeps and gives it up at the end of each tick; under
\* a fair mutex every worker that asks for the lock gets it, every request
\* that was read whole is answered, unless the write of the reply fails and
\* the connection ends, and the tick thread goes on to tick.
C27_SleepOutsideLock ==
    /\ [](tick_thread = "sleep" => mutex # Some(0))
    /\ [][ticks' # ticks => (mutex = Some(0) /\ mutex' = None /\ ticks' = ticks + 1)]_vars
    /\ \A i \in Clients :
          /\ workers[i].pc = "lock" ~> mutex = Some(i)
          /\ workers[i].pc = "lock" ~>
                 \/ workers[i].pc = "version" /\ workers[i].replies >= 1
                 \/ workers[i].pc = "closed" /\ workers[i].err = "io"
    /\ <>(ticks = MaxServerTicks)

\* A worker waits for the lock while the tick thread holds it and the other
\* worker waits too.
C27_Witness ==
    /\ tick_thread = "tick" /\ mutex = Some(0)
    /\ \A i \in Clients : workers[i].pc = "lock"

---------------------------------------------------------------------------
\* The handles of the queued tracks, head first.
QueueHandles(c) == [i \in 1..Len(c.play_queue.items) |-> c.play_queue.items[i].handle]

\* The pages the ticks have to emit before the first page of the k-th queued
\* track: the buffer and the queued tracks in front of it.
RECURSIVE PagesQueuedBefore(_, _)
PagesQueuedBefore(c, k) ==
    IF k <= 1 THEN 0
    ELSE Len(c.play_queue.items[k - 1].track) + PagesQueuedBefore(c, k - 1)

Ahead(c, k) == Len(c.buffer) + PagesQueuedBefore(c, k)

\* The place of handle h in the queue, 0 when it is not there.
PlaceOf(c, h) ==
    LET at == {i \in 1..Len(c.play_queue.items) : c.play_queue.items[i].handle = h}
    IN IF at = {} THEN 0 ELSE CHOOSE i \in at : TRUE

\* C28 (FIFO emission of admitted tracks): under any interleaving of
\* enqueue, fast_forward, replace_fallback and tick the admitted tracks start
\* emission, first page first, in the order of their admission and each
\* once; what has been admitted and has not started is in the queue, so a
\* fast-forward takes no track out of it; every tick brings each queued
\* track one page nearer to its start and no other operation moves it away;
\* and while ticks go on every queued track starts.
C28_FifoEmission ==
    /\ [](handles = started \o QueueHandles(core))
    /\ [][/\ reply'.op = "fast_forward" => core'.play_queue = core.play_queue
          /\ started' # started =>
                /\ reply'.op = "tick"
                /\ started' = Append(started, core.play_queue.items[1].handle)
                /\ out'.idx = 1
                /\ out'.src = core.play_queue.items[1].track[1].src
                /\ core'.playing = Some([handle |-> core.play_queue.items[1].handle,
                                         sample_position |-> out'.position])
          /\ \A h \in 1..MaxHandle :
                (PlaceOf(core, h) # 0 /\ PlaceOf(core', h) # 0) =>
                    IF reply'.op = "tick"
                    THEN Ahead(core', PlaceOf(core', h)) = Ahead(core, PlaceOf(core, h)) - 1
                    ELSE Ahead(core', PlaceOf(core', h)) <= Ahead(core, PlaceOf(core, h))
          /\ \A h \in 1..MaxHandle :
                (PlaceOf(core, h) # 0 /\ PlaceOf(core', h) = 0) =>
                    /\ reply'.op = "tick"
                    /\ Ahead(core, PlaceOf(core, h)) = 0]_vars
    /\ core.play_queue.items # <<>> ~> (started = handles \/ ticks = MaxTicks)

\* Two admitted tracks have started in the order of their admission, the
\* second just now, after a fast-forward and a replaced fallback.
C28_Witness ==
    /\ started = <<1, 2>>
    /\ Len(handles) >= 2
    /\ reply.op = "tick"
    /\ out.idx = 1
    /\ core.playing # None /\ core.playing[1].handle = 2
    /\ (ff.active \/ ff.closed)
    /\ installed = "TB"

---------------------------------------------------------------------------
\* C29 (tick always has a page): in every reachable state, start-up with the
\* configured or built-in fallback included, the buffer is not empty after
\* fill_buffer, so the dequeue of get_next_page does not fail and every tick
\* emits one page.
C29_TickAlwaysHasPage == ~panicked

---------------------------------------------------------------------------
\* C30 (sleep never exceeds the page duration): whatever time passes between
\* the deadline being computed and the remaining time being computed, the
\* milliseconds handed to sleep_ms are at most the wait of the clock for the
\* page just emitted, and 0 when the deadline has passed.
C30_SleepWithinPageDuration ==
    pacer.pc = "sleep" =>
        /\ pacer.sleep_ms[1] = 0
        /\ pacer.sleep_ms[2] * 1000 <= pacer.wait
        /\ pacer.now >= pacer.deadline => pacer.sleep_ms = U32v(0)

\* The deadline had passed by a millisecond or more and the tick thread was
\* put to sleep for nearly 2^32 milliseconds.
C30_Overslept ==
    /\ pacer.pc = "sleep"
    /\ pacer.now > pacer.deadline
    /\ pacer.sleep_ms[1] = W16 - 1

====
